---------------------------- MODULE Spec2Model ----------------------------
(***************************************************************************)
(* Model of rest_framework_swagger/urlparser.py (class UrlParser).        *)
(*                                                                         *)
(* A Python string is a sequence of one-character strings, so that strip,  *)
(* split, replace, the `in` substring test, os.path.commonprefix and the   *)
(* comparisons made by min, max and sorted are computed character by       *)
(* character, the way the interpreter computes them.                       *)
(*                                                                         *)
(* Two specifications:                                                     *)
(*   Spec         the resource grouper, get_top_level_apis                 *)
(*   FlattenSpec  the tree flattener, get_apis / __flatten_patterns_tree__ *)
(***************************************************************************)
EXTENDS Integers, Sequences, FiniteSets, TLC

VARIABLES
    pc,           \* "input" before the call, "returned" after it
    apis,         \* get_top_level_apis: the argument, a list of endpoint paths
    prefix,       \* get_top_level_apis: the local `prefix` (line 70)
    top_apis,     \* get_top_level_apis: the returned list
    patterns,     \* get_apis: the route tree
    filter_path,  \* get_apis: the filter substring, or None
    exclude_namespaces, \* get_apis: the excluded namespaces
    op,           \* the entry point this run calls
    flat,         \* get_apis: the local `apis` (line 32), what the flattener returned
    result        \* get_apis: what the call returned or raised

vars == <<pc, apis, prefix, top_apis, patterns, filter_path, exclude_namespaces, op, flat, result>>

None == "None"
TypeError == "TypeError"

----------------------------------------------------------------------------
(* Bounds *)

\* An input list of the grouper costs, per path, its length plus one.
MaxSize == 7

\* The number of nodes (leaves and resolvers) of a route tree.
MaxNodes == 3

----------------------------------------------------------------------------
(* Python str primitives *)

\* Code points of the characters that occur in paths and patterns.
ord(c) ==
    CASE c = "$" -> 36 [] c = "(" -> 40 [] c = ")" -> 41 [] c = "+" -> 43
      [] c = "." -> 46 [] c = "/" -> 47 [] c = "1" -> 49 [] c = "<" -> 60
      [] c = ">" -> 62 [] c = "?" -> 63 [] c = "P" -> 80 [] c = "\\" -> 92
      [] c = "^" -> 94 [] c = "a" -> 97 [] c = "b" -> 98 [] c = "c" -> 99
      [] c = "d" -> 100 [] c = "e" -> 101 [] c = "f" -> 102 [] c = "h" -> 104
      [] c = "i" -> 105 [] c = "m" -> 109 [] c = "n" -> 110 [] c = "o" -> 111
      [] c = "p" -> 112 [] c = "r" -> 114 [] c = "s" -> 115 [] c = "t" -> 116
      [] c = "v" -> 118 [] c = "x" -> 120 [] c = "{" -> 123 [] c = "}" -> 125

\* s[i:] for a 0-based i, as the 1-based suffix starting at i+1
Drop(s, n) == SubSeq(s, n + 1, Len(s))
Take(s, n) == SubSeq(s, 1, n)

\* a < b for Python strings: lexicographic by code point, a proper prefix first
RECURSIVE StrLess(_, _)
StrLess(a, b) ==
    IF b = <<>> THEN FALSE
    ELSE IF a = <<>> THEN TRUE
    ELSE IF a[1] # b[1] THEN ord(a[1]) < ord(b[1])
    ELSE StrLess(Tail(a), Tail(b))

startswith(s, p) == Len(p) <= Len(s) /\ Take(s, Len(p)) = p

\* s.find(sub) + 1: the 1-based index of the first occurrence, 0 when there is none
find(s, sub) ==
    LET hits == {i \in 1..(Len(s) - Len(sub) + 1) : SubSeq(s, i, i + Len(sub) - 1) = sub}
    IN  IF hits = {} THEN 0 ELSE CHOOSE i \in hits : \A j \in hits : i <= j

\* s.rfind(sub) + 1
rfind(s, sub) ==
    LET hits == {i \in 1..(Len(s) - Len(sub) + 1) : SubSeq(s, i, i + Len(sub) - 1) = sub}
    IN  IF hits = {} THEN 0 ELSE CHOOSE i \in hits : \A j \in hits : i >= j

\* sub in s
contains(s, sub) == find(s, sub) # 0

\* s.strip('/')
RECURSIVE lstrip(_)
lstrip(s) == IF s # <<>> /\ s[1] = "/" THEN lstrip(Tail(s)) ELSE s
RECURSIVE rstrip(_)
rstrip(s) == IF s # <<>> /\ s[Len(s)] = "/" THEN rstrip(Take(s, Len(s) - 1)) ELSE s
strip(s) == rstrip(lstrip(s))

\* s.split(sep, 1)[0]
split_first(s, sep) ==
    LET i == find(s, sep) IN IF i = 0 THEN s ELSE Take(s, i - 1)

\* s.rsplit('/', 1)
rsplit_once(s) ==
    LET i == rfind(s, <<"/">>)
    IN  IF i = 0 THEN <<s>> ELSE <<Take(s, i - 1), Drop(s, i)>>

\* s.split('/')[-1]
last_of_split(s) ==
    LET i == rfind(s, <<"/">>) IN IF i = 0 THEN s ELSE Drop(s, i)

Range(f) == {f[i] : i \in DOMAIN f}

\* min(m), max(m) of a non-empty list of strings
str_min(m) == CHOOSE s \in Range(m) : \A t \in Range(m) : ~StrLess(t, s)
str_max(m) == CHOOSE s \in Range(m) : \A t \in Range(m) : ~StrLess(s, t)

\* os.path.commonprefix(m): the first mismatch between min(m) and max(m)
commonprefix(m) ==
    IF m = <<>> THEN <<>>
    ELSE LET s1 == str_min(m)
             s2 == str_max(m)
             bad == {i \in 1..Len(s1) : i > Len(s2) \/ s1[i] # s2[i]}
         IN  IF bad = {} THEN s1
             ELSE Take(s1, (CHOOSE i \in bad : \A j \in bad : i <= j) - 1)

----------------------------------------------------------------------------
(* get_top_level_apis *)

\* mutant: the leading and trailing '/' are not stripped
api_paths_no_strip(endpoints) ==
    [i \in 1..Len(endpoints) |-> split_first(endpoints[i], <<"/", "{">>)]

\* line 58: the base path of every endpoint
api_paths(endpoints) ==
    [i \in 1..Len(endpoints) |-> split_first(strip(endpoints[i]), <<"/", "{">>)]

\* mutant: the '/' is not put back after the rsplit
get_prefix_no_slash(paths) == rsplit_once(commonprefix(paths))[1]

\* mutant: the common prefix is not trimmed back to a '/'
get_prefix_untrimmed(paths) == commonprefix(paths)

\* lines 60-65
get_prefix(paths) ==
    LET components == rsplit_once(commonprefix(paths))
    IN  IF Len(components) > 1 THEN components[1] \o <<"/">> ELSE components[1]

\* mutant: the whole tail is taken as the head
get_heads_whole(paths) == paths

\* lines 67-68
get_heads(paths) == [i \in 1..Len(paths) |-> split_first(paths[i], <<"/">>)]

\* lines 70-78: the set resource_paths, given the local prefix
resource_paths(paths, pre) ==
    IF pre = <<>> THEN Range(get_heads(paths))
    ELSE LET base_len == Len(pre)
             tails == [i \in 1..Len(paths) |-> Drop(paths[i], base_len)]
         IN  {pre \o h : h \in Range(get_heads(tails))}

\* lines 82-84
get_last_element(paths) == last_of_split(paths)

\* the orders in which a Python set may be iterated
RECURSIVE IterationOrders(_)
IterationOrders(S) ==
    IF S = {} THEN {<<>>}
    ELSE UNION {{<<x>> \o rest : rest \in IterationOrders(S \ {x})} : x \in S}

\* sorted() is stable: x goes after every element whose key is not greater
RECURSIVE insert_sorted(_, _)
insert_sorted(done, x) ==
    IF done = <<>> THEN <<x>>
    ELSE IF StrLess(get_last_element(x), get_last_element(done[1]))
         THEN <<x>> \o done
         ELSE <<done[1]>> \o insert_sorted(Tail(done), x)

RECURSIVE stable_sort(_, _)
stable_sort(done, todo) ==
    IF todo = <<>> THEN done
    ELSE stable_sort(insert_sorted(done, todo[1]), Tail(todo))

\* mutant: the set is returned in iteration order
sorted_not(order) == order

\* line 80, for one iteration order of the set
sorted_by_last_element(order) == stable_sort(<<>>, order)

\* line 80: everything sorted(resource_paths, key=...) can return
sorted_outcomes(S) == {sorted_by_last_element(o) : o \in IterationOrders(S)}

\* lines 51-80: everything get_top_level_apis(endpoints) can return
get_top_level_apis(endpoints) ==
    LET paths == api_paths(endpoints)
    IN  sorted_outcomes(resource_paths(paths, get_prefix(paths)))

----------------------------------------------------------------------------
(* The reference computation the tests compare with (test_resources,       *)
(* test_get_top_level_apis: simply_get_top_level_apis), steps 1-5          *)

\* step 1: strip '/', cut before the first '/{'
BasePath(path) ==
    LET s == strip(path)
        cut == {i \in 1..(Len(s) - 1) : s[i] = "/" /\ s[i + 1] = "{"}
    IN  IF cut = {} THEN s ELSE Take(s, (CHOOSE i \in cut : \A j \in cut : i <= j) - 1)

BasePaths(endpoints) == [i \in 1..Len(endpoints) |-> BasePath(endpoints[i])]

\* step 2: the longest string every base path starts with
CommonPrefix(paths) ==
    IF paths = <<>> THEN <<>>
    ELSE LET n == CHOOSE k \in 0..Len(paths[1]) :
                    /\ \A i \in 1..Len(paths) : startswith(paths[i], Take(paths[1], k))
                    /\ \A m \in (k + 1)..Len(paths[1]) :
                          \E i \in 1..Len(paths) : ~startswith(paths[i], Take(paths[1], m))
         IN  Take(paths[1], n)

\* step 2: trimmed back to (and including) its last '/', empty without one
Anchor(paths) ==
    LET cp == CommonPrefix(paths)
        slashes == {i \in 1..Len(cp) : cp[i] = "/"}
    IN  IF slashes = {} THEN <<>>
        ELSE Take(cp, CHOOSE i \in slashes : \A j \in slashes : i >= j)

\* step 3: the base path minus the anchor, up to the next '/'
HeadSegment(path, anchor) ==
    LET rest == Drop(path, Len(anchor))
        slashes == {i \in 1..Len(rest) : rest[i] = "/"}
    IN  IF slashes = {} THEN rest
        ELSE Take(rest, (CHOOSE i \in slashes : \A j \in slashes : i <= j) - 1)

\* step 4
ResourceSet(endpoints) ==
    LET paths == BasePaths(endpoints)
        anchor == Anchor(paths)
    IN  {anchor \o HeadSegment(paths[i], anchor) : i \in 1..Len(paths)}

\* the substring after the last '/'
FinalSegment(r) ==
    LET slashes == {i \in 1..Len(r) : r[i] = "/"}
    IN  IF slashes = {} THEN r
        ELSE Drop(r, CHOOSE i \in slashes : \A j \in slashes : i >= j)

\* step 5: the set laid out in ascending order of final segment
simply_get_top_level_apis(endpoints) ==
    LET S == ResourceSet(endpoints)
    IN  CHOOSE s \in IterationOrders(S) :
            \A i \in 1..(Len(s) - 1) : ~StrLess(FinalSegment(s[i + 1]), FinalSegment(s[i]))

----------------------------------------------------------------------------
(* django.contrib.admindocs.views.simplify_regex, called at line 98 *)

\* the characters \w matches, among those of ord
WordChars ==
    {"1", "P", "a", "b", "c", "d", "e", "f", "h", "i", "m", "n", "o", "p",
     "r", "s", "t", "v", "x"}

Min(S) == CHOOSE i \in S : \A j \in S : i <= j

\* named_group_matcher = \(\?P(<\w+>).+?\) matched at the start of s:
\* the length of the match and its group 1, length 0 when there is no match
match_named_group(s) ==
    IF ~startswith(s, <<"(", "?", "P", "<">>) THEN [len |-> 0, group |-> <<>>]
    ELSE LET stops == {j \in 5..Len(s) : s[j] \notin WordChars}
         IN  IF stops = {} \/ Min(stops) = 5 \/ s[Min(stops)] # ">"
             THEN [len |-> 0, group |-> <<>>]
             ELSE LET j == Min(stops)
                      closes == {k \in (j + 2)..Len(s) : s[k] = ")"}
                  IN  IF closes = {} THEN [len |-> 0, group |-> <<>>]
                      ELSE [len |-> Min(closes), group |-> SubSeq(s, 4, j)]

\* named_group_matcher.sub(lambda m: m.group(1), pattern)
RECURSIVE sub_named_groups(_)
sub_named_groups(s) ==
    IF s = <<>> THEN <<>>
    ELSE LET m == match_named_group(s)
         IN  IF m.len > 0 THEN m.group \o sub_named_groups(Drop(s, m.len))
             ELSE <<s[1]>> \o sub_named_groups(Tail(s))

\* non_named_group_matcher.sub("<var>", pattern), the matcher being \(.*?\)
RECURSIVE sub_non_named_groups(_)
sub_non_named_groups(s) ==
    IF s = <<>> THEN <<>>
    ELSE LET closes == {k \in 2..Len(s) : s[k] = ")"}
         IN  IF s[1] = "(" /\ closes # {}
             THEN <<"<", "v", "a", "r", ">">> \o sub_non_named_groups(Drop(s, Min(closes)))
             ELSE <<s[1]>> \o sub_non_named_groups(Tail(s))

\* s.replace(c, '')
remove_char(s, c) == SelectSeq(s, LAMBDA x : x # c)

\* s.replace('//', '/')
RECURSIVE replace_double_slash(_)
replace_double_slash(s) ==
    IF Len(s) < 2 THEN s
    ELSE IF s[1] = "/" /\ s[2] = "/" THEN <<"/">> \o replace_double_slash(Drop(s, 2))
    ELSE <<s[1]>> \o replace_double_slash(Tail(s))

\* s.replace(a, b) for single characters
replace_char(s, a, b) == [i \in 1..Len(s) |-> IF s[i] = a THEN b ELSE s[i]]

simplify_regex(pattern) ==
    LET p1 == sub_non_named_groups(sub_named_groups(pattern))
        p2 == remove_char(remove_char(remove_char(p1, "^"), "$"), "?")
        p3 == remove_char(replace_double_slash(p2), "\\")
    IN  IF startswith(p3, <<"/">>) THEN p3 ELSE <<"/">> \o p3

----------------------------------------------------------------------------
(* The view classes a callback can carry *)

\* issubclass(cls, APIView)
is_APIView(cls) == cls \in {"UserView", "SwaggerResourcesView", "APIRoot"}

\* issubclass(cls, APIDocView)
is_APIDocView(cls) == cls = "SwaggerResourcesView"

\* cls.__module__
module_of(cls) ==
    CASE cls = "APIRoot" -> "rest_framework.routers"
      [] cls = "SwaggerResourcesView" -> "rest_framework_swagger.views"
      [] cls = "TemplateView" -> "django.views.generic.base"
      [] OTHER -> "app.views"

\* what a call returns or raises
Returns(v) == [exc |-> None, value |-> v]
Raises(e) == [exc |-> e, value |-> <<>>]

\* a handler: a class, or an instance of a class; NoHandler is Python's None
NoHandler == [kind |-> None, of |-> None]
ClassHandler(cls) == [kind |-> "cls", of |-> cls]
InstanceHandler(cls) == [kind |-> "cls_instance", of |-> cls]

\* an absent filter_path, and a given one
NoFilter == [given |-> FALSE, str |-> <<>>]
Filter(s) == [given |-> TRUE, str |-> s]

----------------------------------------------------------------------------
(* The flattener *)

\* lines 148-166.  issubclass(pattern.callback.cls_instance, APIDocView) is
\* given an instance where a class is required: it raises TypeError whenever
\* it is evaluated, that is whenever the isinstance test before it is true.
get_pattern_api_callback(pattern) ==
    LET callback == pattern.callback
    IN  IF callback.cls # None /\ is_APIView(callback.cls) /\ ~is_APIDocView(callback.cls)
        THEN Returns(ClassHandler(callback.cls))
        ELSE IF callback.cls_instance # None /\ is_APIView(callback.cls_instance)
        THEN Raises(TypeError)
        ELSE Returns(NoHandler)

\* lines 168-175
exclude_router_api_root(callback) == module_of(callback.of) = "rest_framework.routers"

\* lines 177-184
exclude_format_endpoints(path) ==
    contains(path, <<".", "{", "f", "o", "r", "m", "a", "t", "}">>)

\* lines 86-113: a list of no or one endpoint, or the exception raised;
\* `ref` stands for the pattern object the endpoint refers to
assemble_endpoint_data(pattern, pre, filter, ref) ==
    LET callback == get_pattern_api_callback(pattern)
        path == simplify_regex(pre \o pattern.regex)
        braced == replace_char(replace_char(path, "<", "{"), ">", "}")
    IN  IF callback.exc # None THEN callback
        ELSE IF callback.value = NoHandler \/ exclude_router_api_root(callback.value)
        THEN Returns(<<>>)
        ELSE IF filter.given /\ ~contains(path, filter.str) THEN Returns(<<>>)
        ELSE IF exclude_format_endpoints(braced) THEN Returns(<<>>)
        ELSE Returns(<< [path |-> braced, pattern |-> ref, callback |-> callback.value] >>)

\* mutant: the recursive call leaves exclude_namespaces at its default
recursive_exclude_namespaces_default(excluded) == {}

\* line 143: the exclude_namespaces the recursive call is given
recursive_exclude_namespaces(excluded) == excluded

\* lines 115-146, the loop from its i-th pattern on; `at` is the position of
\* the list `pats` in the tree
RECURSIVE flatten_loop(_, _, _, _, _, _, _)
flatten_loop(pats, i, pattern_list, pre, filter, excluded, at) ==
    IF i > Len(pats) THEN Returns(pattern_list)
    ELSE LET pattern == pats[i]
         IN  IF pattern.kind = "RegexURLPattern"
             THEN LET endpoint_data ==
                          assemble_endpoint_data(pattern, pre, filter, Append(at, i))
                  IN  IF endpoint_data.exc # None THEN endpoint_data
                      ELSE flatten_loop(pats, i + 1, pattern_list \o endpoint_data.value,
                                        pre, filter, excluded, at)
             ELSE IF pattern.namespace \in excluded
             THEN flatten_loop(pats, i + 1, pattern_list, pre, filter, excluded, at)
             ELSE LET sub == flatten_loop(pattern.url_patterns, 1, <<>>,
                                          pre \o pattern.regex, filter,
                                          recursive_exclude_namespaces(excluded),
                                          Append(at, i))
                  IN  IF sub.exc # None THEN sub
                      ELSE flatten_loop(pats, i + 1, pattern_list \o sub.value,
                                        pre, filter, excluded, at)

\* lines 115-146
flatten_patterns_tree(pats, pre, filter, excluded) ==
    flatten_loop(pats, 1, <<>>, pre, filter, excluded, <<>>)

\* lines 42-49
get_filtered_apis(endpoints, filter) ==
    SelectSeq(endpoints, LAMBDA api : contains(strip(api.path), filter))

\* lines 37-40: what get_apis returns once the flattener has returned `found`
get_apis_return(found, filter) ==
    IF found.exc # None THEN found
    ELSE IF filter.given THEN Returns(get_filtered_apis(found.value, filter.str))
    ELSE found

\* lines 32-40, for patterns that are given
get_apis(pats, filter, excluded) ==
    get_apis_return(flatten_patterns_tree(pats, <<>>, filter, excluded), filter)

----------------------------------------------------------------------------
(* Inputs of the flattener *)

Callback(cls, inst) == [cls |-> cls, cls_instance |-> inst]
NoCallback == Callback(None, None)

RegexURLPattern(regex, callback) ==
    [kind |-> "RegexURLPattern", regex |-> regex, callback |-> callback,
     namespace |-> None, url_patterns |-> <<>>]

RegexURLResolver(regex, namespace, url_patterns) ==
    [kind |-> "RegexURLResolver", regex |-> regex, callback |-> NoCallback,
     namespace |-> namespace, url_patterns |-> url_patterns]

\* r'^echo$'
R_echo == <<"^", "e", "c", "h", "o", "$">>
\* r'^(?P<v>.+)/echo$'
R_v_echo == <<"^", "(", "?", "P", "<", "v", ">", ".", "+", ")", "/", "e", "c", "h", "o", "$">>
\* r'^echo\.(?P<format>.+)$'
R_echo_format ==
    <<"^", "e", "c", "h", "o", "\\", ".",
      "(", "?", "P", "<", "f", "o", "r", "m", "a", "t", ">", ".", "+", ")", "$">>
\* r'^api/'
R_api == <<"^", "a", "p", "i", "/">>
\* r'^(?P<v>.+)/'
R_v == <<"^", "(", "?", "P", "<", "v", ">", ".", "+", ")", "/">>

Leaves ==
    {RegexURLPattern(R_echo, Callback("UserView", None)),
     RegexURLPattern(R_v_echo, Callback("UserView", None)),
     RegexURLPattern(R_echo_format, Callback("UserView", None)),
     RegexURLPattern(R_echo, Callback("SwaggerResourcesView", None)),
     RegexURLPattern(R_echo, Callback("APIRoot", None)),
     RegexURLPattern(R_echo, Callback("TemplateView", None)),
     RegexURLPattern(R_echo, Callback(None, None)),
     RegexURLPattern(R_echo, Callback(None, "UserView"))}

Resolvers ==
    {[regex |-> R_api, namespace |-> None],
     [regex |-> R_api, namespace |-> "admin"],
     [regex |-> R_v, namespace |-> None]}

\* the route trees of exactly n nodes
RECURSIVE TreesOfSize(_)
TreesOfSize(n) ==
    IF n = 0 THEN {<<>>}
    ELSE {<<l>> \o rest : l \in Leaves, rest \in TreesOfSize(n - 1)} \cup
         UNION {{<<RegexURLResolver(r.regex, r.namespace, sub)>> \o rest :
                     r \in Resolvers,
                     sub \in TreesOfSize(k), rest \in TreesOfSize(n - 1 - k)} :
                k \in 0..(n - 1)}

\* the route trees of at most n nodes
TreesUpTo(n) == UNION {TreesOfSize(k) : k \in 0..n}

Filters ==
    {NoFilter,
     Filter(<<"e", "c", "h", "o">>),
     Filter(<<"a", "p", "i", "/", "{", "v", "}">>),
     Filter(<<"<", "v", ">">>)}

ExcludeSets == {{}, {"admin"}}

----------------------------------------------------------------------------
(* The flattener as a state machine *)

FlattenInit ==
    /\ pc = "input"
    /\ op = "get_apis"
    /\ patterns \in TreesUpTo(MaxNodes)
    /\ filter_path \in Filters
    /\ exclude_namespaces \in ExcludeSets
    /\ flat = Returns(<<>>)
    /\ result = Returns(<<>>)
    /\ apis = <<>>
    /\ prefix = <<>>
    /\ top_apis = <<>>

\* lines 15-40
GetApis ==
    /\ pc = "input"
    /\ op = "get_apis"
    /\ LET found == flatten_patterns_tree(patterns, <<>>, filter_path, exclude_namespaces)
       IN  /\ flat' = found
           /\ result' = get_apis_return(found, filter_path)
    /\ pc' = "returned"
    /\ UNCHANGED <<apis, prefix, top_apis, patterns, filter_path, exclude_namespaces, op>>

FlattenNext == GetApis

FlattenSpec == FlattenInit /\ [][FlattenNext]_vars

----------------------------------------------------------------------------
(* Inputs of the grouper *)

Alphabet == {"/", "{", "a", "b"}

RECURSIVE StrsOfLen(_)
StrsOfLen(n) ==
    IF n = 0 THEN {<<>>}
    ELSE {Append(s, c) : s \in StrsOfLen(n - 1), c \in Alphabet}

StrsUpTo(n) == UNION {StrsOfLen(k) : k \in 0..n}

RECURSIVE PathLists(_)
PathLists(budget) ==
    IF budget <= 0 THEN {<<>>}
    ELSE {<<>>} \cup
         UNION {{<<p>> \o rest : rest \in PathLists(budget - Len(p) - 1)} :
                    p \in StrsUpTo(budget - 1)}

\* lines 187-196
test_paths == <<
    <<"/", "t", "o", "p">>,
    <<"/", "d", "o", "c", "/", "i", "n", "d", "e", "x">>,
    <<"/", "a", "p", "i", "/", "v", "1", "/", "e", "c", "h", "o">>,
    <<"/", "a", "p", "i", "/", "{", "v", "e", "r", "s", "i", "o", "n", "}", "/">>,
    <<"/", "a", "p", "i", "/", "{", "v", "e", "r", "s", "i", "o", "n", "}", "/", "e", "c", "h", "o">>,
    <<"/", "a", "p", "i", "/", "v", "{", "v", "e", "r", "s", "i", "o", "n", "}", "/">>,
    <<"/", "a", "p", "i", "/", "v", "{", "v", "e", "r", "s", "i", "o", "n", "}", "/", "e", "c", "h", "o", "/">>,
    <<"/", "a", "p", "i", "/", "v", "{", "v", "e", "r", "s", "i", "o", "n", "}", "/", "e", "c", "h", "o", "/", "{", "x", "}">> >>

\* the elements of s at the indices in I, in order
RECURSIVE Pick(_, _, _)
Pick(s, I, i) ==
    IF i > Len(s) THEN <<>>
    ELSE (IF i \in I THEN <<s[i]>> ELSE <<>>) \o Pick(s, I, i + 1)

\* lines 199-203 and 208: powerset(test_paths)
powerset(s) == {Pick(s, I, 1) : I \in SUBSET (1..Len(s))}

----------------------------------------------------------------------------
(* The grouper as a state machine *)

Init ==
    /\ pc = "input"
    /\ op = "get_top_level_apis"
    /\ apis \in PathLists(MaxSize) \cup powerset(test_paths)
    /\ prefix = <<>>
    /\ top_apis = <<>>
    /\ patterns = <<>>
    /\ filter_path = NoFilter
    /\ exclude_namespaces = {}
    /\ flat = Returns(<<>>)
    /\ result = Returns(<<>>)

\* lines 51-80
GetTopLevelApis ==
    /\ pc = "input"
    /\ op = "get_top_level_apis"
    /\ LET paths == api_paths(apis)
           pre == get_prefix(paths)
       IN  /\ prefix' = pre
           /\ \E order \in IterationOrders(resource_paths(paths, pre)) :
                top_apis' = sorted_by_last_element(order)
    /\ pc' = "returned"
    /\ UNCHANGED <<apis, patterns, filter_path, exclude_namespaces, op, flat, result>>

Next == GetTopLevelApis

Spec == Init /\ [][Next]_vars

----------------------------------------------------------------------------
(* The route tree read independently of the flattener: its leaves in       *)
(* depth-first, left-to-right order, each with its position, the patterns  *)
(* of the resolvers above it and their namespaces, outermost first         *)

RECURSIVE LeavesFrom(_, _, _, _, _)
LeavesFrom(pats, i, pre, above, at) ==
    IF i > Len(pats) THEN <<>>
    ELSE LET node == pats[i]
             here == IF node.kind = "RegexURLPattern"
                     THEN << [ref |-> Append(at, i), leaf |-> node,
                              pre |-> pre, above |-> above] >>
                     ELSE LeavesFrom(node.url_patterns, 1, pre \o node.regex,
                                     Append(above, node.namespace), Append(at, i))
         IN  here \o LeavesFrom(pats, i + 1, pre, above, at)

LeavesOf(tree) == LeavesFrom(tree, 1, <<>>, <<>>, <<>>)

\* the tree with every subtree under an excluded namespace emptied
RECURSIVE Prune(_, _)
Prune(pats, excluded) ==
    [i \in 1..Len(pats) |->
        IF pats[i].kind = "RegexURLPattern" THEN pats[i]
        ELSE IF pats[i].namespace \in excluded
        THEN RegexURLResolver(pats[i].regex, pats[i].namespace, <<>>)
        ELSE RegexURLResolver(pats[i].regex, pats[i].namespace,
                              Prune(pats[i].url_patterns, excluded))]

\* the handler of a callback, whichever variant carries it
HandlerOf(callback) ==
    IF callback.cls # None THEN ClassHandler(callback.cls)
    ELSE IF callback.cls_instance # None THEN InstanceHandler(callback.cls_instance)
    ELSE NoHandler

\* an API view that is not the documentation meta-view
Documentable(callback) ==
    /\ HandlerOf(callback) # NoHandler
    /\ is_APIView(HandlerOf(callback).of)
    /\ ~is_APIDocView(HandlerOf(callback).of)

\* the path template of a leaf below the resolver patterns `pre`
PathTemplate(pre, leaf) ==
    replace_char(replace_char(simplify_regex(pre \o leaf.regex), "<", "{"), ">", "}")

\* the leaf passes every filter of the flattener
Passes(e, filter, excluded) ==
    /\ Documentable(e.leaf.callback)
    /\ module_of(HandlerOf(e.leaf.callback).of) # "rest_framework.routers"
    /\ ~contains(PathTemplate(e.pre, e.leaf), <<".", "{", "f", "o", "r", "m", "a", "t", "}">>)
    /\ filter.given => contains(PathTemplate(e.pre, e.leaf), filter.str)
    /\ Range(e.above) \cap excluded = {}

\* one descriptor per passing leaf, in visitation order
ExpectedEndpoints(tree, filter, excluded) ==
    LET passing == SelectSeq(LeavesOf(tree), LAMBDA e : Passes(e, filter, excluded))
    IN  [k \in 1..Len(passing) |->
            [path |-> PathTemplate(passing[k].pre, passing[k].leaf),
             pattern |-> passing[k].ref,
             callback |-> HandlerOf(passing[k].leaf.callback)]]

\* the leaf at position ref, as LeavesOf describes it
LeafAt(tree, ref) ==
    LET all == LeavesOf(tree)
    IN  all[CHOOSE k \in 1..Len(all) : all[k].ref = ref]

----------------------------------------------------------------------------
(* Claims about the flattener, checked under FlattenSpec *)

FlattenReturned == pc = "returned" /\ op = "get_apis"

\* a result restricted to the endpoints whose stripped path contains s
Restricted(r, s) ==
    IF r.exc # None THEN r
    ELSE Returns(SelectSeq(r.value, LAMBDA api : contains(strip(api.path), s)))

\* C2: get_apis with filter substring s returns the unfiltered result
\* restricted to the descriptors whose stripped path contains s, also when s
\* contains a '{name}' placeholder.
C2_FilterIsRestriction ==
    (FlattenReturned /\ filter_path.given) =>
        result = Restricted(get_apis(patterns, NoFilter, exclude_namespaces), filter_path.str)

\* C3: no returned descriptor comes from a leaf below a resolver with an
\* excluded namespace, at whatever depth, and the flattener returns what it
\* returns, with nothing excluded, on the tree with the excluded subtrees
\* emptied: the other leaves are treated as if there were no exclusion.
C3_ExclusionIsTotal ==
    FlattenReturned =>
        /\ \A k \in 1..Len(flat.value) :
              Range(LeafAt(patterns, flat.value[k].pattern).above) \cap exclude_namespaces = {}
        /\ flat = flatten_patterns_tree(Prune(patterns, exclude_namespaces), <<>>, filter_path, {})

\* C3 witness: a leaf that the flattener emits when nothing is excluded, lying
\* two levels below a resolver of an excluded namespace, is not returned.
C3_Witness ==
    /\ FlattenReturned
    /\ flat.exc = None
    /\ LET all == LeavesOf(patterns)
           free == flatten_patterns_tree(patterns, <<>>, filter_path, {})
       IN  \E k \in 1..Len(all) :
              /\ Len(all[k].above) = 2
              /\ all[k].above[1] \in exclude_namespaces
              /\ all[k].above[2] \notin exclude_namespaces
              /\ free.exc = None
              /\ \E m \in 1..Len(free.value) : free.value[m].pattern = all[k].ref
              /\ \A m \in 1..Len(flat.value) : flat.value[m].pattern # all[k].ref

\* C4: the flattener returns exactly one descriptor per leaf that passes all
\* filters, in depth-first left-to-right order, each path built from the
\* patterns of all resolvers above the leaf followed by the leaf's own.
C4_ExactlyThePassingLeaves ==
    FlattenReturned =>
        flat = Returns(ExpectedEndpoints(patterns, filter_path, exclude_namespaces))

\* C8: both handler variants are resolved without raising: every leaf whose
\* handler, class or bound instance, is an API view other than the meta-view
\* resolves to that handler, every other leaf to nothing, and the flattener
\* returns a list.
C8_BothVariantsResolve ==
    FlattenReturned =>
        /\ flat.exc = None
        /\ \A k \in 1..Len(LeavesOf(patterns)) :
              LET leaf == LeavesOf(patterns)[k].leaf
              IN  get_pattern_api_callback(leaf) =
                      Returns(IF Documentable(leaf.callback)
                              THEN HandlerOf(leaf.callback) ELSE NoHandler)

\* The flattener agrees with C4's reading of it on every input that keeps
\* clear of the two divergences: the filter holds no placeholder bracket and
\* no visited leaf carries an API view as a bound instance.
FlattenerAwayFromDivergences ==
    (/\ FlattenReturned
     /\ \A i \in 1..Len(filter_path.str) : filter_path.str[i] \notin {"<", ">", "{", "}"}
     /\ \A k \in 1..Len(LeavesOf(patterns)) :
           LET e == LeavesOf(patterns)[k]
           IN  (e.leaf.callback.cls_instance # None /\ is_APIView(e.leaf.callback.cls_instance))
                   => Range(e.above) \cap exclude_namespaces # {})
    => flat = Returns(ExpectedEndpoints(patterns, filter_path, exclude_namespaces))

----------------------------------------------------------------------------
(* Claims about get_top_level_apis, checked under Spec *)

Returned == pc = "returned" /\ op = "get_top_level_apis"

\* C1: for every list of endpoint paths, get_top_level_apis returns exactly
\* the list of the reference computation: base paths, anchor, head segments,
\* the distinct anchor+head values, sorted ascending by final segment.
C1_MatchesReference ==
    Returned => top_apis = simply_get_top_level_apis(apis)

\* C1 witness: the call on all eight fixture paths has returned api, doc, top.
C1_Witness ==
    /\ Returned
    /\ apis = test_paths
    /\ top_apis = << <<"a", "p", "i">>, <<"d", "o", "c">>, <<"t", "o", "p">> >>

\* r covers b: b is r, or b starts with r followed by '/'
Covers(r, b) == b = r \/ startswith(b, r \o <<"/">>)

\* C5: every input endpoint's base path is covered by exactly one returned
\* prefix: none is left uncovered and none is covered twice.
C5_ExactlyOneCover ==
    Returned =>
        \A i \in 1..Len(apis) :
            Cardinality({j \in 1..Len(top_apis) : Covers(top_apis[j], BasePath(apis[i]))}) = 1

\* C5 witness: two endpoints below a shared anchor, covered by two different
\* prefixes.
C5_Witness ==
    /\ Returned
    /\ prefix # <<>>
    /\ \E i, k \in 1..Len(apis), j, l \in 1..Len(top_apis) :
          /\ j # l
          /\ Covers(top_apis[j], BasePath(apis[i])) /\ top_apis[j] # BasePath(apis[i])
          /\ Covers(top_apis[l], BasePath(apis[k]))

\* C6: no returned prefix followed by '/' is a prefix of another returned
\* prefix.
C6_Minimal ==
    Returned =>
        \A j, k \in 1..Len(top_apis) :
            j # k => ~startswith(top_apis[k], top_apis[j] \o <<"/">>)

\* C6 witness: two prefixes are returned although one endpoint's base path
\* lies strictly below another's.
C6_Witness ==
    /\ Returned
    /\ Len(top_apis) >= 2
    /\ \E i, k \in 1..Len(apis) :
          startswith(BasePath(apis[k]), BasePath(apis[i]) \o <<"/">>)

Swap(s, i, j) == [s EXCEPT ![i] = s[j], ![j] = s[i]]

\* C7: exchanging any two entries of the input list leaves the returned list
\* unchanged; the input lists are closed under such exchanges, which generate
\* every permutation.
C7_PermutationInvariant ==
    Returned =>
        \A i, j \in 1..Len(apis) :
            get_top_level_apis(Swap(apis, i, j)) = {top_apis}

\* C7 witness: a list of three different endpoints with two resources.
C7_Witness ==
    /\ Returned
    /\ Len(apis) = 3
    /\ Cardinality(Range(apis)) = 3
    /\ Len(top_apis) = 2

\* C9: the anchor is empty or ends with '/', and it is empty when the
\* character-wise common prefix of the base paths holds no '/'.
C9_AnchorEmptyOrSlash ==
    Returned =>
        /\ prefix = <<>> \/ prefix[Len(prefix)] = "/"
        /\ ~contains(CommonPrefix(BasePaths(apis)), <<"/">>) => prefix = <<>>

\* C9 as amended: when the common prefix of the base paths holds a '/', the
\* anchor is that prefix trimmed back to and including its last '/'; when it
\* holds none, the anchor is the whole common prefix, and every returned
\* prefix is then a first segment, free of '/'.
C9_AnchorAmended ==
    Returned =>
        LET cp == CommonPrefix(BasePaths(apis))
        IN  IF contains(cp, <<"/">>)
            THEN prefix = Anchor(BasePaths(apis)) /\ prefix[Len(prefix)] = "/"
            ELSE /\ prefix = cp
                 /\ \A j \in 1..Len(top_apis) : ~contains(top_apis[j], <<"/">>)

\* C9 witness: a single endpoint without an inner '/': the anchor is the
\* whole base path, which is also the only resource.
C9_Witness ==
    /\ Returned
    /\ Len(apis) = 1
    /\ BasePath(apis[1]) # <<>>
    /\ ~contains(BasePath(apis[1]), <<"/">>)
    /\ prefix = BasePath(apis[1])
    /\ top_apis = <<BasePath(apis[1])>>

\* C10: the returned list is strictly ascending in the final path segment of
\* its prefixes, so no two prefixes share a final segment.
C10_StrictlyAscending ==
    Returned =>
        \A i \in 1..(Len(top_apis) - 1) :
            StrLess(FinalSegment(top_apis[i]), FinalSegment(top_apis[i + 1]))

\* C10 witness: three prefixes are returned, and the one that covers the
\* first endpoint of the input comes last.
C10_Witness ==
    /\ Returned
    /\ Len(top_apis) >= 3
    /\ Covers(top_apis[Len(top_apis)], BasePath(apis[1]))

============================================================================
